---- MODULE Spec2Model ----
(***************************************************************************)
(* A model of geomesh/utils.py: boundary extraction (sort_edges), ring     *)
(* classification (index_ring_collection), the mesh repair operations      *)
(* (cleanup_isolates, cleanup_pinched_nodes, sieve, finalize_mesh) and the *)
(* gradient limiter (limgrad).                                             *)
(*                                                                         *)
(* Vertex indices are 0-based as in the source; TLA+ sequences are 1-based, *)
(* so vertex i of a mesh is vert2[i + 1].  Areas are kept doubled (twice   *)
(* the shoelace area) so that they stay integers on integer coordinates;   *)
(* area thresholds are doubled in the same way.                            *)
(***************************************************************************)
EXTENDS Integers, Sequences, FiniteSets, TLC

VARIABLES mesh, fin, hist, rule, srt, rng, lim

vars == <<mesh, fin, hist, rule, srt, rng, lim>>

\* The value of a sub-model's variable under a specification that does not use it.
Idle == [pc |-> "idle"]

(***************************************************************************)
(* Python list helpers.                                                    *)
(***************************************************************************)
Last(s) == s[Len(s)]

Front(s) == SubSeq(s, 1, Len(s) - 1)

\* list.pop(i) leaves this list behind (i is a 1-based position here)
RemoveAt(s, i) == SubSeq(s, 1, i - 1) \o SubSeq(s, i + 1, Len(s))

InSeq(x, s) == \E i \in 1..Len(s) : s[i] = x

\* list.index(x): the first position holding x
IndexOf(s, x) == CHOOSE i \in 1..Len(s) : s[i] = x /\ \A j \in 1..(i - 1) : s[j] # x

Reversed(e) == <<e[2], e[1]>>

RECURSIVE Flatten(_)
Flatten(ss) == IF Len(ss) = 0 THEN << >> ELSE ss[1] \o Flatten(Tail(ss))

Max2(a, b) == IF a >= b THEN a ELSE b

Min2(a, b) == IF a <= b THEN a ELSE b

Abs(a) == IF a >= 0 THEN a ELSE 0 - a

(***************************************************************************)
(* sort_edges: chaining directed boundary edges into rings.                *)
(***************************************************************************)
\* lines 187-188: the last edge opens the first chain; e0, e1 are the start and
\* end columns of the edges that are left.
SortStart(edges) ==
    [edges   |-> Front(edges),
     e0      |-> [i \in 1..(Len(edges) - 1) |-> edges[i][1]],
     e1      |-> [i \in 1..(Len(edges) - 1) |-> edges[i][2]],
     ordered |-> <<Last(edges)>>,
     coll    |-> << >>,
     n       |-> 0]

\* A broken variant of the loop body: the popped edge is taken at idx but the
\* start/end columns always lose their last entry.
SortLoopDesync(st) ==
    LET tail == Last(st.ordered)[2]
        head == st.ordered[1][1]
        last == Len(st.edges)
        take(idx, ord, coll) ==
            [edges   |-> RemoveAt(st.edges, idx),
             e0      |-> RemoveAt(st.e0, last),
             e1      |-> RemoveAt(st.e1, last),
             ordered |-> ord,
             coll    |-> coll,
             n       |-> st.n + 1]
    IN  IF InSeq(tail, st.e0)
        THEN LET idx == IndexOf(st.e0, tail)
             IN  take(idx, Append(st.ordered, st.edges[idx]), st.coll)
        ELSE IF InSeq(head, st.e1)
        THEN LET idx == IndexOf(st.e1, head)
             IN  take(idx, <<st.edges[idx]>> \o st.ordered, st.coll)
        ELSE IF InSeq(tail, st.e1)
        THEN LET idx == IndexOf(st.e1, tail)
             IN  take(idx, Append(st.ordered, Reversed(st.edges[idx])), st.coll)
        ELSE IF InSeq(head, st.e0)
        THEN LET idx == IndexOf(st.e0, head)
             IN  take(idx, <<Reversed(st.edges[idx])>> \o st.ordered, st.coll)
        ELSE take(last, <<st.edges[last]>>, Append(st.coll, st.ordered))

\* lines 189-215: one iteration of the while loop
SortLoop(st) ==
    LET tail == Last(st.ordered)[2]
        head == st.ordered[1][1]
        take(idx, ord, coll) ==
            [edges   |-> RemoveAt(st.edges, idx),
             e0      |-> RemoveAt(st.e0, idx),
             e1      |-> RemoveAt(st.e1, idx),
             ordered |-> ord,
             coll    |-> coll,
             n       |-> st.n + 1]
    IN  IF InSeq(tail, st.e0)
        THEN LET idx == IndexOf(st.e0, tail)
             IN  take(idx, Append(st.ordered, st.edges[idx]), st.coll)
        ELSE IF InSeq(head, st.e1)
        THEN LET idx == IndexOf(st.e1, head)
             IN  take(idx, <<st.edges[idx]>> \o st.ordered, st.coll)
        ELSE IF InSeq(tail, st.e1)
        THEN LET idx == IndexOf(st.e1, tail)
             IN  take(idx, Append(st.ordered, Reversed(st.edges[idx])), st.coll)
        ELSE IF InSeq(head, st.e0)
        THEN LET idx == IndexOf(st.e0, head)
             IN  take(idx, <<Reversed(st.edges[idx])>> \o st.ordered, st.coll)
        ELSE take(Len(st.edges), <<Last(st.edges)>>, Append(st.coll, st.ordered))

\* lines 217-223: the open chain is recorded as the last ring
SortFinish(st) == Append(st.coll, st.ordered)

RECURSIVE SortRun(_)
SortRun(st) == IF Len(st.edges) = 0 THEN st ELSE SortRun(SortLoop(st))

\* sort_edges on a list of two or more edges (an empty list is returned as it
\* is, line 183; a single edge fails to unpack at line 188)
sort_edges(edges) ==
    IF Len(edges) = 0 THEN << >> ELSE SortFinish(SortRun(SortStart(edges)))

(***************************************************************************)
(* The sort_edges state machine: inputs are edge lists over SortVerts.     *)
(***************************************************************************)
NSortVerts == 3

MaxEdges == 4

SortVerts == 0..(NSortVerts - 1)

SortEdgeSet == {e \in SortVerts \X SortVerts : e[1] # e[2]}

SortInputs == UNION {[1..k -> SortEdgeSet] : k \in 0..MaxEdges}

SortInit ==
    /\ srt \in {[pc |-> "call", input |-> inp, st |-> Idle, out |-> << >>] :
                    inp \in SortInputs}
    /\ mesh = Idle /\ fin = Idle /\ hist = Idle /\ rule = Idle
    /\ rng = Idle /\ lim = Idle

SortOthers == UNCHANGED <<mesh, fin, hist, rule, rng, lim>>

\* lines 182-183
SortEmpty ==
    /\ srt.pc = "call" /\ Len(srt.input) = 0
    /\ srt' = [srt EXCEPT !.pc = "done", !.out = srt.input]
    /\ SortOthers

\* line 188 with one edge: zip(*[]) yields nothing to unpack
SortRaise ==
    /\ srt.pc = "call" /\ Len(srt.input) = 1
    /\ srt' = [srt EXCEPT !.pc = "raised"]
    /\ SortOthers

SortBegin ==
    /\ srt.pc = "call" /\ Len(srt.input) >= 2
    /\ srt' = [srt EXCEPT !.pc = "loop", !.st = SortStart(srt.input)]
    /\ SortOthers

SortIterate ==
    /\ srt.pc = "loop" /\ Len(srt.st.edges) > 0
    /\ srt' = [srt EXCEPT !.st = SortLoop(srt.st)]
    /\ SortOthers

SortReturn ==
    /\ srt.pc = "loop" /\ Len(srt.st.edges) = 0
    /\ srt' = [srt EXCEPT !.pc = "done", !.out = SortFinish(srt.st)]
    /\ SortOthers

SortNext == SortEmpty \/ SortRaise \/ SortBegin \/ SortIterate \/ SortReturn

SpecSort == SortInit /\ [][SortNext]_vars

\* every vertex starts as many edges as it ends
Balanced(edges) ==
    \A v \in SortVerts :
        Cardinality({i \in 1..Len(edges) : edges[i][1] = v})
            = Cardinality({i \in 1..Len(edges) : edges[i][2] = v})

\* occurrences of the edge between a and b, in either direction
CountU(edges, a, b) ==
    Cardinality({i \in 1..Len(edges) : edges[i] = <<a, b>> \/ edges[i] = <<b, a>>})

ChainsHeadToTail(ring) == \A i \in 1..(Len(ring) - 1) : ring[i][2] = ring[i + 1][1]

RingClosed(ring) == Last(ring)[2] = ring[1][1]

\* C9: on a balanced list of two or more edges sort_edges terminates (every
\* loop iteration consumes exactly one edge) and returns rings that use every
\* input edge exactly once (as given or reversed), chain head-to-tail and are
\* closed.
C9_SortEdgesRings ==
    (Len(srt.input) >= 2 /\ Balanced(srt.input)) =>
        /\ srt.pc \in {"call", "loop", "done"}
        /\ srt.pc = "loop" => srt.st.n + Len(srt.st.edges) = Len(srt.input) - 1
        /\ srt.pc = "done" =>
            /\ \A a, b \in SortVerts :
                   CountU(Flatten(srt.out), a, b) = CountU(srt.input, a, b)
            /\ \A r \in 1..Len(srt.out) :
                   /\ Len(srt.out[r]) > 0
                   /\ ChainsHeadToTail(srt.out[r])
                   /\ RingClosed(srt.out[r])

\* a balanced input that sort_edges split into two rings
C9_Witness ==
    /\ srt.pc = "done"
    /\ Len(srt.input) = 4
    /\ Balanced(srt.input)
    /\ Len(srt.out) = 2

(***************************************************************************)
(* Geometry: Polygon(...).area and Path(...).contains_point(s).            *)
(***************************************************************************)
\* twice the signed shoelace area of the polygon through pts
RECURSIVE ShoelaceFrom(_, _)
ShoelaceFrom(pts, i) ==
    IF i > Len(pts) THEN 0
    ELSE LET j == (i % Len(pts)) + 1
         IN  pts[i][1] * pts[j][2] - pts[j][1] * pts[i][2] + ShoelaceFrom(pts, i + 1)

\* Polygon(pts).area, doubled: the unsigned area of the ring
RingArea2(pts) == Abs(ShoelaceFrom(pts, 1))

OnSegment(p, a, b) ==
    /\ (b[1] - a[1]) * (p[2] - a[2]) = (b[2] - a[2]) * (p[1] - a[1])
    /\ Min2(a[1], b[1]) <= p[1] /\ p[1] <= Max2(a[1], b[1])
    /\ Min2(a[2], b[2]) <= p[2] /\ p[2] <= Max2(a[2], b[2])

OnBoundary(pts, p) ==
    \E i \in 1..Len(pts) : OnSegment(p, pts[i], pts[(i % Len(pts)) + 1])

\* whether the +x ray from p crosses the edge a -> b, under a half-open
\* convention for vertices at the ray's height (geY) and for crossings exactly
\* at p (geX)
RayHits(p, a, b, geY, geX) ==
    LET above(y) == IF geY THEN y >= p[2] ELSE y > p[2]
        dy  == b[2] - a[2]
        num == a[1] * dy + (p[2] - a[2]) * (b[1] - a[1])
        rhs == p[1] * dy
    IN  /\ above(a[2]) # above(b[2])
        /\ IF dy > 0
           THEN (IF geX THEN num >= rhs ELSE num > rhs)
           ELSE (IF geX THEN num <= rhs ELSE num < rhs)

CrossingParity(pts, p, geY, geX) ==
    Cardinality({i \in 1..Len(pts) :
                    RayHits(p, pts[i], pts[(i % Len(pts)) + 1], geY, geX)}) % 2 = 1

\* The conventions a crossing-number test may follow for a point that lies
\* exactly on the path: the library leaves that case open, so the rule is
\* fixed once per behaviour and every convention is explored.
EdgeRules ==
    {[onEdge |-> "in",  geY |-> TRUE, geX |-> TRUE],
     [onEdge |-> "out", geY |-> TRUE, geX |-> TRUE]}
    \cup {[onEdge |-> "ray", geY |-> gy, geX |-> gx] : gy, gx \in BOOLEAN}

\* Path(pts + [pts[0]], closed=True).contains_point(p)
contains_point(pts, p, r) ==
    IF r.onEdge # "ray" /\ OnBoundary(pts, p)
    THEN r.onEdge = "in"
    ELSE CrossingParity(pts, p, r.geY, r.geX)

(***************************************************************************)
(* index_ring_collection: classifying rings into polygon regions.  Rings   *)
(* are named by their position in the list sort_edges returned; areas[i]   *)
(* is ring i's area and inside[i][j] tells whether ring j's path contains  *)
(* the first vertex of ring i.                                             *)
(***************************************************************************)
\* areas.index(np.max(areas))
ArgMaxFirst(areas) ==
    CHOOSE i \in 1..Len(areas) :
        /\ \A j \in 1..Len(areas) : areas[j] <= areas[i]
        /\ \A j \in 1..(i - 1) : areas[j] < areas[i]

\* the positions of s that are in keep, in ascending order
RECURSIVE Positions(_, _)
Positions(n, keep) ==
    IF n = 0 THEN << >>
    ELSE IF n \in keep THEN Append(Positions(n - 1, keep), n)
    ELSE Positions(n - 1, keep)

\* the positions of keep in descending order (for i in reversed(sorted(..)))
RECURSIVE Descending(_, _)
Descending(n, keep) ==
    IF n = 0 THEN << >>
    ELSE IF n \in keep THEN <<n>> \o Descending(n - 1, keep)
    ELSE Descending(n - 1, keep)

\* lines 247-257: the ring of maximum area is the first exterior
RingStart(areas) ==
    LET idx == ArgMaxFirst(areas)
        ids == [i \in 1..Len(areas) |-> i]
    IN  [pool    |-> RemoveAt(ids, idx),
         areas   |-> RemoveAt(areas, idx),
         regions |-> <<[exterior |-> idx, interiors |-> << >>]>>,
         ext     |-> idx,
         k       |-> 0]

\* lines 260-264: rings of the pool whose first vertex the exterior contains
PotentialInteriors(st, inside) ==
    {i \in 1..Len(st.pool) : inside[st.pool[i]][st.ext]}

\* A broken variant of the nested-ring filter: every candidate is kept.
RealInteriorsUnfiltered(st, inside) == PotentialInteriors(st, inside)

\* lines 266-279: candidates that no other candidate contains
RealInteriors(st, inside) ==
    LET pot == PotentialInteriors(st, inside)
    IN  {p \in pot : ~ \E q \in pot \ {p} : inside[st.pool[p]][st.pool[q]]}

\* a sequence restricted to the positions in keep, order preserved
TakeAt(s, pos) == [i \in 1..Len(pos) |-> s[pos[i]]]

Take(s, keep) == TakeAt(s, Positions(Len(s), keep))

\* lines 286-296: the next exterior, if rings are left
RingAdvance(st, regs1, pool1, areas1, idx) ==
    IF Len(pool1) > 0
    THEN [pool    |-> RemoveAt(pool1, idx),
          areas   |-> RemoveAt(areas1, idx),
          regions |-> Append(regs1, [exterior |-> pool1[idx], interiors |-> << >>]),
          ext     |-> pool1[idx],
          k       |-> st.k + 1]
    ELSE [pool |-> pool1, areas |-> areas1, regions |-> regs1,
          ext |-> st.ext, k |-> st.k + 1]

\* lines 281-284: the real interiors leave the pool, highest position first,
\* and become the current region's holes
RingPop(st, real, areas1) ==
    RingAdvance(st,
                [st.regions EXCEPT ![Len(st.regions)].interiors =
                    @ \o TakeAt(st.pool, Descending(Len(st.pool), real))],
                Take(st.pool, (1..Len(st.pool)) \ real),
                areas1,
                IF Len(areas1) > 0 THEN ArgMaxFirst(areas1) ELSE 0)

\* lines 258-296: one iteration of the while loop
RingLoopOn(st, real) == RingPop(st, real, Take(st.areas, (1..Len(st.areas)) \ real))

RingLoop(st, inside) == RingLoopOn(st, RealInteriors(st, inside))

RECURSIVE RingRun(_, _)
RingRun(st, inside) ==
    IF Len(st.pool) = 0 THEN st ELSE RingRun(RingLoop(st, inside), inside)

\* lines 240-297 on one or more rings: the regions, in dict order
ClassifyRings(areas, inside) == RingRun(RingStart(areas), inside).regions

(***************************************************************************)
(* The ring classifier's state machine: any areas, any containment.        *)
(***************************************************************************)
MaxRings == 3

MaxRingArea == 2

RingInputs ==
    UNION {[areas : [1..n -> 1..MaxRingArea],
            inside : {m \in [1..n -> [1..n -> BOOLEAN]] : \A i \in 1..n : ~ m[i][i]}] :
           n \in 1..MaxRings}

RingInit ==
    /\ rng \in {[pc |-> "call", areas |-> inp.areas, inside |-> inp.inside,
                 st |-> Idle, out |-> << >>] : inp \in RingInputs}
    /\ mesh = Idle /\ fin = Idle /\ hist = Idle /\ rule = Idle
    /\ srt = Idle /\ lim = Idle

RingOthers == UNCHANGED <<mesh, fin, hist, rule, srt, lim>>

RingBegin ==
    /\ rng.pc = "call"
    /\ rng' = [rng EXCEPT !.pc = "loop", !.st = RingStart(rng.areas)]
    /\ RingOthers

RingIterate ==
    /\ rng.pc = "loop" /\ Len(rng.st.pool) > 0
    /\ rng' = [rng EXCEPT !.st = RingLoop(rng.st, rng.inside)]
    /\ RingOthers

RingReturn ==
    /\ rng.pc = "loop" /\ Len(rng.st.pool) = 0
    /\ rng' = [rng EXCEPT !.pc = "done", !.out = rng.st.regions]
    /\ RingOthers

RingNext == RingBegin \/ RingIterate \/ RingReturn

SpecRing == RingInit /\ [][RingNext]_vars

\* the rings given a role by regions k, k+1, ...
RingsFrom(regs, k) ==
    UNION {{regs[j].exterior} \cup {regs[j].interiors[i] : i \in 1..Len(regs[j].interiors)} :
           j \in k..Len(regs)}

\* the roles (region, slot) ring r has in regs; slot 0 is the exterior
RolesOf(regs, r) ==
    {<<j, 0>> : j \in {j \in 1..Len(regs) : regs[j].exterior = r}}
    \cup UNION {{<<j, i>> : i \in {i \in 1..Len(regs[j].interiors) :
                                      regs[j].interiors[i] = r}} :
                j \in 1..Len(regs)}

\* C10: index_ring_collection terminates (every iteration assigns at least one
\* ring) and partitions the rings: each ring has exactly one role; each
\* exterior has maximum area among the rings unassigned when it is chosen; each
\* hole's first vertex is inside its region's exterior and inside no other
\* candidate interior of that exterior.
C10_RingPartition ==
    LET n == Len(rng.areas) IN
    /\ rng.pc = "loop" =>
           /\ rng.st.k <= n - 1
           /\ Len(rng.st.pool) <= n - 1 - rng.st.k
    /\ rng.pc = "done" =>
        LET regs == rng.out IN
        /\ \A r \in 1..n : Cardinality(RolesOf(regs, r)) = 1
        /\ \A k \in 1..Len(regs) :
            LET ext        == regs[k].exterior
                unassigned == RingsFrom(regs, k)
                candidates == {c \in unassigned \ {ext} : rng.inside[c][ext]}
            IN  /\ \A r \in unassigned : rng.areas[r] <= rng.areas[ext]
                /\ \A i \in 1..Len(regs[k].interiors) :
                       LET h == regs[k].interiors[i]
                       IN  /\ h \in candidates
                           /\ \A c \in candidates \ {h} : ~ rng.inside[h][c]

\* a classification with a hole, and a ring nested in that hole that became a
\* later region's exterior
C10_Witness ==
    /\ rng.pc = "done"
    /\ Len(rng.areas) = 3
    /\ Len(rng.out) = 2
    /\ Len(rng.out[1].interiors) = 1
    /\ rng.inside[rng.out[2].exterior][rng.out[1].interiors[1]]
    /\ rng.inside[rng.out[2].exterior][rng.out[1].exterior]

(***************************************************************************)
(* The mesh: vert2 (coord, IDtag), tria3 (index, IDtag) and value.  quad4  *)
(* and hexa8 are empty (a 2D triangle mesh).                               *)
(***************************************************************************)
NVert(m) == Len(m.vert2)

Coord(m, i) == m.vert2[i + 1].coord

\* the optional area argument: None, or a (doubled) threshold
None == << >>

Some(t) == <<t>>

\* whether p0, p1, p2 turn clockwise
Clockwise(p0, p1, p2) ==
    (p1[1] - p0[1]) * (p2[2] - p0[2]) - (p1[2] - p0[2]) * (p2[1] - p0[1]) < 0

\* Triangulation(...) turns every clockwise triangle anticlockwise before its
\* neighbors table is built
TriCCW(m, t) ==
    IF Clockwise(Coord(m, t[1]), Coord(m, t[2]), Coord(m, t[3]))
    THEN <<t[1], t[3], t[2]>>
    ELSE t

mesh_to_tri(m) == [i \in 1..Len(m.tria3) |-> TriCCW(m, m.tria3[i].index)]

\* lines 236-237: side j of triangle t, from corner j to corner (j + 1) % 3
Side(t, j) == <<t[j + 1], t[((j + 1) % 3) + 1]>>

\* every side of every triangle, triangle by triangle
DirectedEdges(tris) ==
    [k \in 1..(3 * Len(tris)) |-> Side(tris[((k - 1) \div 3) + 1], (k - 1) % 3)]

\* the sides no other triangle runs along in the opposite direction
Unmatched(all) == SelectSeq(all, LAMBDA e : \A k \in 1..Len(all) : all[k] # Reversed(e))

\* lines 230-237: the directed edges (triangle i, side j) whose neighbor is -1,
\* in the row-major order np.where returns them
BoundaryEdges(m) == Unmatched(DirectedEdges(mesh_to_tri(m)))

\* vertices[e0, :] of a ring
RingCoords(m, ring) == [i \in 1..Len(ring) |-> Coord(m, ring[i][1])]

\* the regions in terms of the rings themselves
NameRegions(rings, regs) ==
    [k \in 1..Len(regs) |->
        [exterior  |-> rings[regs[k].exterior],
         interiors |-> [i \in 1..Len(regs[k].interiors) |-> rings[regs[k].interiors[i]]]]]

\* lines 240-297 given each ring's coordinates
ClassifyCoords(rings, coords, r) ==
    NameRegions(rings,
        ClassifyRings([i \in 1..Len(coords) |-> RingArea2(coords[i])],
                      [i \in 1..Len(coords) |-> [j \in 1..Len(coords) |->
                          i # j /\ contains_point(coords[j], coords[i][1], r)]]))

RegionsOfRings(m, r, rings) ==
    ClassifyCoords(rings, [i \in 1..Len(rings) |-> RingCoords(m, rings[i])], r)

\* lines 226-297
index_ring_collection(m, r) == RegionsOfRings(m, r, sort_edges(BoundaryEdges(m)))

RECURSIVE SumSeq(_)
SumSeq(s) == IF Len(s) = 0 THEN 0 ELSE s[1] + SumSeq(Tail(s))

\* Polygon(exterior, interiors).area, doubled: the shell less its holes
PolygonArea2(m, region) ==
    RingArea2(RingCoords(m, region.exterior))
        - SumSeq([i \in 1..Len(region.interiors) |->
                     RingArea2(RingCoords(m, region.interiors[i]))])

\* lines 52-62 and 66 / 118-119: one area per polygon region
RegionAreas(m, regs) == [k \in 1..Len(regs) |-> PolygonArea2(m, regs[k])]

SeqMax(s) == CHOOSE x \in {s[i] : i \in 1..Len(s)} : \A i \in 1..Len(s) : s[i] <= x

\* lines 67-73 / 120-126: the regions to remove (1-based positions)
RemoveList(areas, area) ==
    IF area = None
    THEN {k \in 1..Len(areas) : areas[k] < SeqMax(areas)}
    ELSE {k \in 1..Len(areas) : areas[k] <= area[1]}

\* lines 65-77
needs_sieve(m, r, area) ==
    RemoveList(RegionAreas(m, index_ring_collection(m, r)), area) # {}

\* np.unique(mesh.tria3['index']): vertices that some triangle references
UsedIndexes(m) == {m.tria3[i].index[q] : i \in 1..Len(m.tria3), q \in 1..3}

\* lines 327-337: vertices_around_vertex(mesh)[v], one entry for every ordered
\* pair of positions of a triangle
Neighbors(m, v) ==
    UNION {{m.tria3[x[1]].index[q] : q \in (1..3) \ {x[2]}} :
           x \in {y \in (1..Len(m.tria3)) \X (1..3) : m.tria3[y[1]].index[y[2]] = v}}

\* A broken variant of the renumbering: only the highest dropped vertex is
\* accounted for.
RenumberOnce(i, dropped) ==
    IF Len(dropped) = 0 THEN i
    ELSE IF i >= dropped[1] THEN i - 1 ELSE i

\* lines 30-32 / 161-162: for idx in reversed(tria3_idxs): index[index >= idx] -= 1,
\* applied to one index; dropped lists the unreferenced vertices, highest first
RECURSIVE Renumber(_, _)
Renumber(i, dropped) ==
    IF Len(dropped) = 0 THEN i
    ELSE Renumber(IF i >= dropped[1] THEN i - 1 ELSE i, Tail(dropped))

\* the vertex indices of idxs (a set), highest first
Reverse0(n, idxs) == [i \in 1..Cardinality(idxs) |-> Descending(n, {j + 1 : j \in idxs})[i] - 1]

Renumbered(tria, dropped) ==
    [i \in 1..Len(tria) |->
        [index |-> [q \in 1..3 |-> Renumber(tria[i].index[q], dropped)],
         IDtag |-> tria[i].IDtag]]

\* lines 29-40: the vertices in used are kept, the triangles renumbered
IsolatesDropped(m, used) ==
    [vert2 |-> Take(m.vert2, {i + 1 : i \in used}),
     value |-> IF Len(m.value) > 0 THEN Take(m.value, {i + 1 : i \in used}) ELSE m.value,
     tria3 |-> Renumbered(m.tria3, Reverse0(NVert(m), (0..(NVert(m) - 1)) \ used))]

\* lines 22-40
cleanup_isolates(m) == IsolatesDropped(m, UsedIndexes(m))

\* lines 136-145: marks spread to the neighbours of the enclosed vertices, and
\* every vertex with two neighbours or fewer is marked
MaskFrom(m, enclosed) ==
    enclosed
        \cup UNION {Neighbors(m, v) : v \in enclosed}
        \cup {v \in UsedIndexes(m) : Cardinality(Neighbors(m, v)) <= 2}

\* lines 129-132: the vertices the removed regions' exterior paths contain
Enclosed(m, r, paths) ==
    {v \in 0..(NVert(m) - 1) : \E path \in paths : contains_point(path, Coord(m, v), r)}

\* lines 118-126: the exterior paths of the regions to remove
RemovedPaths(m, regs, area) ==
    {RingCoords(m, regs[k].exterior) : k \in RemoveList(RegionAreas(m, regs), area)}

\* lines 118-145: the vertices sieve marks for removal
SieveMask(m, r, area) ==
    MaskFrom(m, Enclosed(m, r, RemovedPaths(m, index_ring_collection(m, r), area)))

\* lines 147-148, 159-160: the triangles that reference no marked vertex
Unmasked(m, mask) ==
    Take(m.tria3, {i \in 1..Len(m.tria3) : \A q \in 1..3 : m.tria3[i].index[q] \notin mask})

\* lines 156-177: used_indexes is taken from the triangles before the masked
\* ones are dropped, so only the vertices that were unreferenced already are
\* removed; tria holds the triangles that stay
SieveCompact(m, tria, used) ==
    [vert2 |-> Take(m.vert2, {i + 1 : i \in used}),
     value |-> IF Len(m.value) > 0 THEN Take(m.value, {i + 1 : i \in used}) ELSE m.value,
     tria3 |-> Renumbered(tria, Reverse0(NVert(m), (0..(NVert(m) - 1)) \ used))]

\* lines 110-177
sieve(m, r, area) == SieveCompact(m, Unmasked(m, SieveMask(m, r, area)), UsedIndexes(m))

\* the hole rings of all regions, in dict order
HoleRings(regs) == Flatten([k \in 1..Len(regs) |-> regs[k].interiors])

\* np.asarray(ring)[:, 0] of every hole ring
StartNodes(holes) ==
    Flatten([h \in 1..Len(holes) |-> [i \in 1..Len(holes[h]) |-> holes[h][i][1]]])

\* u[c > 1]
Repeated(nodes) ==
    {v \in {nodes[i] : i \in 1..Len(nodes)} :
        Cardinality({i \in 1..Len(nodes) : nodes[i] = v}) > 1}

\* lines 395-400 / 408-413: the vertices that start more than one edge of the
\* hole rings
PinchedNodes(m, r) == Repeated(StartNodes(HoleRings(index_ring_collection(m, r))))

\* lines 394-404
has_pinched_nodes(m, r) == PinchedNodes(m, r) # {}

\* lines 414-417
WithoutTriangles(m, pinched) ==
    [m EXCEPT !.tria3 =
        Take(m.tria3, {i \in 1..Len(m.tria3) :
                          \A q \in 1..3 : m.tria3[i].index[q] \notin pinched})]

\* lines 407-417
cleanup_pinched_nodes(m, r) == WithoutTriangles(m, PinchedNodes(m, r))

\* lines 80-97
put_IDtags(m) ==
    [m EXCEPT !.vert2 = [i \in 1..Len(m.vert2) |-> [coord |-> m.vert2[i].coord, IDtag |-> i]],
              !.tria3 = [i \in 1..Len(m.tria3) |-> [index |-> m.tria3[i].index, IDtag |-> i]]]

(***************************************************************************)
(* Input meshes: triangles of a unit grid of nx by ny cells.  Grid point   *)
(* (x, y) is vertex y * (nx + 1) + x; a cell is split by the diagonal      *)
(* through its lower-left corner ("fwd"), through its lower-right corner   *)
(* ("bwd"), or alternately so that diagonals meet at even points ("jack"). *)
(***************************************************************************)
GridVertex(nx, x, y) == y * (nx + 1) + x

GridCoords(nx, ny) ==
    [i \in 1..((nx + 1) * (ny + 1)) |-> <<(i - 1) % (nx + 1), (i - 1) \div (nx + 1)>>]

\* the two triangles "L" and "U" of cell (cx, cy)
CellTriangle(nx, diag, cx, cy, half) ==
    LET a == GridVertex(nx, cx, cy)
        b == GridVertex(nx, cx + 1, cy)
        c == GridVertex(nx, cx + 1, cy + 1)
        d == GridVertex(nx, cx, cy + 1)
        fwd == diag = "fwd" \/ (diag = "jack" /\ (cx + cy) % 2 = 0)
    IN  IF fwd
        THEN (IF half = "L" THEN <<a, b, c>> ELSE <<a, d, c>>)
        ELSE (IF half = "L" THEN <<a, b, d>> ELSE <<b, c, d>>)

\* the cell halves of the grid, cell by cell
GridHalves(nx, ny) ==
    [k \in 1..(2 * nx * ny) |->
        <<((k - 1) \div 2) % nx, ((k - 1) \div 2) \div nx, IF k % 2 = 1 THEN "L" ELSE "U">>]

MeshOf(pts, tris, valued) ==
    [vert2 |-> [i \in 1..Len(pts) |-> [coord |-> pts[i], IDtag |-> 0]],
     value |-> IF valued THEN [i \in 1..Len(pts) |-> 100 + i] ELSE << >>,
     tria3 |-> [i \in 1..Len(tris) |-> [index |-> tris[i], IDtag |-> 0]]]

\* the mesh of the given cell halves, listed cell by cell; every grid point is
\* a vertex, so the points no triangle uses are isolated vertices
GridMesh(nx, ny, diag, halves, valued) ==
    MeshOf(GridCoords(nx, ny),
           [i \in 1..Cardinality(halves) |->
               CellTriangle(nx, diag,
                            SelectSeq(GridHalves(nx, ny), LAMBDA h : h \in halves)[i][1],
                            SelectSeq(GridHalves(nx, ny), LAMBDA h : h \in halves)[i][2],
                            SelectSeq(GridHalves(nx, ny), LAMBDA h : h \in halves)[i][3])],
           valued)

Cells(xs, ys) == xs \X ys \X {"L", "U"}

\* a 2x2 square of 8 triangles and one floating triangle
SquareAndTriangle(diag, valued) ==
    GridMesh(4, 2, diag, Cells(0..1, 0..1) \cup {<<3, 0, "L">>}, valued)

\* 3x3 cells without the middle one: one hole
Annulus(valued) ==
    GridMesh(3, 3, "fwd", Cells(0..2, 0..2) \ Cells({1}, {1}), valued)

\* 4x3 cells with two triangular holes that share the vertex (2, 2)
PinchedHoles(valued) ==
    GridMesh(4, 3, "fwd", Cells(0..3, 0..2) \ {<<1, 1, "U">>, <<2, 1, "U">>}, valued)

SingleCell(valued) == GridMesh(1, 1, "fwd", Cells({0}, {0}), valued)

SingleTriangle(valued) == GridMesh(1, 1, "fwd", {<<0, 0, "L">>}, valued)

\* two squares of equal area, apart
TwoCells(valued) == GridMesh(3, 1, "fwd", Cells({0, 2}, {0}), valued)

\* a 2x1 strip and a single cell, apart: two regions of different area
StripAndCell(valued) == GridMesh(4, 1, "bwd", Cells({0, 1, 3}, {0}), valued)

InputMeshes ==
    UNION {{SquareAndTriangle("fwd", v), SquareAndTriangle("jack", v), Annulus(v),
            PinchedHoles(v), SingleCell(v), SingleTriangle(v), TwoCells(v),
            StripAndCell(v)} : v \in BOOLEAN}

(***************************************************************************)
(* The repair operations as a state machine.  A caller runs                *)
(* cleanup_isolates, cleanup_pinched_nodes, sieve and finalize_mesh one    *)
(* after the other on one mesh (single-threaded); finalize_mesh is split   *)
(* at its loop, which need not terminate.  hist remembers the last call:   *)
(* op, its area argument, the mesh before it (pre), how it ended (res) and *)
(* the call before it (prev, prevRes).                                     *)
(***************************************************************************)
\* mesh_to_tri and index_ring_collection fail on a mesh without triangles
\* (the maximum of an empty array)
NoTriangles(m) == Len(m.tria3) = 0

MaxCalls == 2

MaxThreshold == 1

AreaArgs == {None} \cup {Some(t) : t \in 0..MaxThreshold}

Init ==
    /\ mesh \in InputMeshes
    /\ rule \in EdgeRules
    /\ fin = [pc |-> "idle", area |-> None, calls |-> 0]
    /\ hist = [op |-> "none", arg |-> None, pre |-> mesh, res |-> "returned",
               prev |-> "none", prevRes |-> "returned"]
    /\ srt = Idle /\ rng = Idle /\ lim = Idle

MeshOthers == UNCHANGED <<rule, srt, rng, lim>>

CanCall == fin.pc # "loop" /\ fin.calls < MaxCalls

Called(op, arg, res) ==
    [op |-> op, arg |-> arg, pre |-> mesh, res |-> res,
     prev |-> hist.op, prevRes |-> hist.res]

CleanupIsolates ==
    /\ CanCall
    /\ mesh' = cleanup_isolates(mesh)
    /\ hist' = Called("cleanup_isolates", None, "returned")
    /\ fin' = [fin EXCEPT !.calls = @ + 1]
    /\ MeshOthers

CleanupPinchedNodes ==
    /\ CanCall
    /\ IF NoTriangles(mesh)
       THEN /\ mesh' = mesh
            /\ hist' = Called("cleanup_pinched_nodes", None, "raised")
       ELSE /\ mesh' = cleanup_pinched_nodes(mesh, rule)
            /\ hist' = Called("cleanup_pinched_nodes", None, "returned")
    /\ fin' = [fin EXCEPT !.calls = @ + 1]
    /\ MeshOthers

Sieve ==
    /\ CanCall
    /\ \E area \in AreaArgs :
         IF NoTriangles(mesh)
         THEN /\ mesh' = mesh
              /\ hist' = Called("sieve", area, "raised")
         ELSE /\ mesh' = sieve(mesh, rule, area)
              /\ hist' = Called("sieve", area, "returned")
    /\ fin' = [fin EXCEPT !.calls = @ + 1]
    /\ MeshOthers

\* line 101
FinalizeCall ==
    /\ CanCall
    /\ \E area \in AreaArgs :
         /\ fin' = [pc |-> "loop", area |-> area, calls |-> fin.calls + 1]
         /\ hist' = Called("finalize_mesh", area, "running")
    /\ mesh' = cleanup_isolates(mesh)
    /\ MeshOthers

\* A variant of the loop condition that forgets the pinch test.
LoopConditionNoPinch(m, r) == needs_sieve(m, r, None)

\* line 102: needs_sieve(mesh) or has_pinched_nodes(mesh); the sieve test is
\* made with no threshold, whatever sieve_area is
LoopCondition(m, r) == needs_sieve(m, r, None) \/ has_pinched_nodes(m, r)

\* line 104 after line 103 left the mesh m1
SieveAfterPinch(m1) ==
    IF NoTriangles(m1)
    THEN /\ mesh' = m1
         /\ fin' = [fin EXCEPT !.pc = "raised"]
         /\ hist' = [hist EXCEPT !.res = "raised"]
    ELSE /\ mesh' = sieve(m1, rule, fin.area)
         /\ UNCHANGED <<fin, hist>>

\* lines 102-104: the condition holds; cleanup_pinched_nodes, then sieve with the
\* caller's threshold (which fails if no triangle is left for it)
FinalizeIterate ==
    /\ fin.pc = "loop" /\ ~ NoTriangles(mesh)
    /\ LoopCondition(mesh, rule)
    /\ SieveAfterPinch(cleanup_pinched_nodes(mesh, rule))
    /\ MeshOthers

\* lines 102, 107: the condition fails; the ID tags are written
FinalizeReturn ==
    /\ fin.pc = "loop" /\ ~ NoTriangles(mesh)
    /\ ~ LoopCondition(mesh, rule)
    /\ mesh' = put_IDtags(mesh)
    /\ fin' = [fin EXCEPT !.pc = "returned"]
    /\ hist' = [hist EXCEPT !.res = "returned"]
    /\ MeshOthers

\* line 102 on a mesh without triangles
FinalizeRaise ==
    /\ fin.pc = "loop" /\ NoTriangles(mesh)
    /\ fin' = [fin EXCEPT !.pc = "raised"]
    /\ hist' = [hist EXCEPT !.res = "raised"]
    /\ UNCHANGED mesh
    /\ MeshOthers

Next ==
    \/ CleanupIsolates
    \/ CleanupPinchedNodes
    \/ Sieve
    \/ FinalizeCall
    \/ FinalizeIterate
    \/ FinalizeReturn
    \/ FinalizeRaise

Spec == Init /\ [][Next]_vars

(***************************************************************************)
(* Properties of the repair operations.                                    *)
(***************************************************************************)
\* triangle i of m as the coordinates of its corners
TriCoords(m, i) ==
    <<Coord(m, m.tria3[i].index[1]), Coord(m, m.tria3[i].index[2]),
      Coord(m, m.tria3[i].index[3])>>

TriCoordSeq(m) == [i \in 1..Len(m.tria3) |-> TriCoords(m, i)]

TriCoordSet(m) == {TriCoords(m, i) : i \in 1..Len(m.tria3)}

VertCoordSet(m) == {m.vert2[i].coord : i \in 1..Len(m.vert2)}

IndicesInRange(m) ==
    \A i \in 1..Len(m.tria3) : \A q \in 1..3 :
        m.tria3[i].index[q] >= 0 /\ m.tria3[i].index[q] < NVert(m)

RECURSIVE IsSubseq(_, _)
IsSubseq(s, t) ==
    IF Len(s) = 0 THEN TRUE
    ELSE IF Len(t) = 0 THEN FALSE
    ELSE IF s[1] = t[1] THEN IsSubseq(Tail(s), Tail(t))
    ELSE IsSubseq(s, Tail(t))

OnOrInside(path, p) == OnBoundary(path, p) \/ CrossingParity(path, p, TRUE, TRUE)

\* the triangles of m that lie in the region with the given exterior path
TrianglesWithin(m, path) ==
    {TriCoords(m, i) : i \in {i \in 1..Len(m.tria3) :
        \A q \in 1..3 : OnOrInside(path, Coord(m, m.tria3[i].index[q]))}}

LargestRegion(m, regs) == regs[ArgMaxFirst(RegionAreas(m, regs))]

SieveReturned == hist.op = "sieve" /\ hist.res = "returned"

FinalizeReturned == hist.op = "finalize_mesh" /\ hist.res = "returned"

\* C1: after sieve(mesh, area=T) every remaining region has area > T; after
\* sieve(mesh) exactly one region remains, the pre-sieve region of maximum
\* area with all of its triangles.
C1_SieveKeepsLargest ==
    SieveReturned =>
        IF hist.arg = None
        THEN /\ ~ NoTriangles(mesh)
             /\ Len(index_ring_collection(mesh, rule)) = 1
             /\ TriCoordSet(mesh) =
                    TrianglesWithin(hist.pre,
                        RingCoords(hist.pre,
                            LargestRegion(hist.pre,
                                index_ring_collection(hist.pre, rule)).exterior))
        ELSE NoTriangles(mesh) \/
             \A k \in 1..Len(index_ring_collection(mesh, rule)) :
                 RegionAreas(mesh, index_ring_collection(mesh, rule))[k] > hist.arg[1]

\* C2: after sieve every marked vertex is gone from the vertex array (with its
\* value), and the triangles are the pre-sieve triangles that reference no
\* marked vertex, in order, renumbered to the compacted vertex array.
C2_SieveRemovesMarked ==
    SieveReturned =>
        LET mask == SieveMask(hist.pre, rule, hist.arg) IN
        /\ \A v \in mask : Coord(hist.pre, v) \notin VertCoordSet(mesh)
        /\ Len(hist.pre.value) > 0 =>
               \A v \in mask :
                   hist.pre.value[v + 1] \notin {mesh.value[i] : i \in 1..Len(mesh.value)}
        /\ IndicesInRange(mesh)
        /\ TriCoordSeq(mesh) = TriCoordSeq(Unmasked(hist.pre, mask))

\* C3: when finalize_mesh(mesh, sieve_area=T) returns, the mesh has at most
\* one region and no region that sieve_area would remove.
C3_FinalizeSieveClean ==
    FinalizeReturned =>
        /\ Len(index_ring_collection(mesh, rule)) <= 1
        /\ ~ needs_sieve(mesh, rule, hist.arg)

\* C4: when finalize_mesh returns, has_pinched_nodes is false: no vertex
\* starts more than one edge of the hole rings.
C4_FinalizePinchFree ==
    FinalizeReturned => ~ has_pinched_nodes(mesh, rule)

\* finalize_mesh returned on a mesh that was pinched when it was called
C4_Witness ==
    /\ FinalizeReturned
    /\ has_pinched_nodes(hist.pre, rule)
    /\ Len(mesh.tria3) < Len(hist.pre.tria3)

Geometry(m) ==
    [coords  |-> [i \in 1..Len(m.vert2) |-> m.vert2[i].coord],
     value   |-> m.value,
     indexes |-> [i \in 1..Len(m.tria3) |-> m.tria3[i].index]]

\* C5: finalize_mesh on the result of finalize_mesh changes neither the vertex
\* coordinates and count, nor the values, nor the triangle index table, and
\* rewrites the ID tags to the same values.
C5_FinalizeIdempotent ==
    (FinalizeReturned /\ hist.prev = "finalize_mesh" /\ hist.prevRes = "returned") =>
        /\ Geometry(mesh) = Geometry(hist.pre)
        /\ mesh = hist.pre

\* C6: every repair operation keeps the mesh well formed: triangle indices are
\* below the vertex count, each triangle that stays refers to the coordinates
\* it referred to before the call, and the value array is empty or as long as
\* the vertex array.
C6_WellFormed ==
    /\ IndicesInRange(mesh)
    /\ IsSubseq(TriCoordSeq(mesh), TriCoordSeq(hist.pre))
    /\ Len(mesh.value) = 0 \/ Len(mesh.value) = NVert(mesh)

\* a call that removed vertices and renumbered the triangles that stayed
C6_Witness ==
    /\ hist.op \in {"cleanup_isolates", "sieve", "finalize_mesh"}
    /\ hist.res = "returned"
    /\ NVert(mesh) < NVert(hist.pre)
    /\ Len(mesh.value) = NVert(mesh)
    /\ Len(mesh.tria3) > 0
    /\ \E i \in 1..Len(mesh.tria3) : \A j \in 1..Len(hist.pre.tria3) :
           mesh.tria3[i].index # hist.pre.tria3[j].index

(***************************************************************************)
(* limgrad.  Coordinates, field values and the slope are integers, and     *)
(* every edge of the input meshes has an integer length, so that           *)
(* elen * dfdx is exact.  On a non-negative integer field                  *)
(* ftol = min(ffun) * sqrt(eps) lies in [0, 1), so x > y + ftol is x > y.  *)
(***************************************************************************)

\* np.sqrt on a perfect square
ISqrt(d2) == CHOOSE r \in 0..d2 : r * r = d2

\* tri.edges holds every side once, as (larger index, smaller index)
EdgeSet(tris) ==
    {<<Max2(Side(tris[x[1]], x[2])[1], Side(tris[x[1]], x[2])[2]),
       Min2(Side(tris[x[1]], x[2])[1], Side(tris[x[1]], x[2])[2])>> :
        x \in (1..Len(tris)) \X (0..2)}

EdgeBefore(e, f) == e[1] < f[1] \/ (e[1] = f[1] /\ e[2] < f[2])

\* line 496: edge = tri.edges, in lexicographic order
TriEdges(edges) ==
    [k \in 1..Cardinality(edges) |->
        CHOOSE e \in edges : Cardinality({f \in edges : EdgeBefore(f, e)}) = k - 1]

EdgeLength(p, q) ==
    ISqrt((p[1] - q[1]) * (p[1] - q[1]) + (p[2] - q[2]) * (p[2] - q[2]))

\* lines 497-499: elen, one length per row of edge
EdgeLengths(m, edge) ==
    [k \in 1..Len(edge) |-> EdgeLength(Coord(m, edge[k][1]), Coord(m, edge[k][2]))]

\* lines 504-507: point_neighbors[v]
point_neighbors(m, v) == Neighbors(m, v)

\* a set of small integers is iterated in ascending order; the entries are
\* 1-based positions (vertex + 1)
AdjacentEdges(m, v) == Positions(NVert(m), {j + 1 : j \in point_neighbors(m, v)})

\* line 510: aidx = np.where(aset == _iter - 1)[0], as 1-based positions
ActiveSet(aset, it) == Positions(Len(aset), {i \in 1..Len(aset) : aset[i] = it - 1})

\* line 513: np.argsort(ffun[aidx]); the result holds positions in aidx
\* (0-based), and the order of equal values is not specified for the default
\* sort kind
Argsorts(vals) ==
    {p \in [1..Len(vals) -> 0..(Len(vals) - 1)] :
        /\ \A i, j \in 1..Len(vals) : i # j => p[i] # p[j]
        /\ \A i \in 1..(Len(vals) - 1) : vals[p[i] + 1] <= vals[p[i + 1] + 1]}

LowerTo(st, v, fun, it) ==
    [ffun |-> [st.ffun EXCEPT ![v + 1] = fun], aset |-> [st.aset EXCEPT ![v + 1] = it]]

\* lines 517-526: one pass of the inner loop body; step is elen[active_idx] * dfdx
Relax(st, active_idx, adj_edge, step, it) ==
    IF st.ffun[adj_edge + 1] > st.ffun[active_idx + 1]
    THEN IF st.ffun[adj_edge + 1] > st.ffun[active_idx + 1] + step
         THEN LowerTo(st, adj_edge, st.ffun[active_idx + 1] + step, it)
         ELSE st
    ELSE IF st.ffun[active_idx + 1] > st.ffun[adj_edge + 1] + step
         THEN LowerTo(st, active_idx, st.ffun[adj_edge + 1] + step, it)
         ELSE st

\* lines 516-526: for adj_edge in adjacent_edges
RECURSIVE RelaxAll(_, _, _, _, _)
RelaxAll(st, active_idx, adjacent, step, it) ==
    IF Len(adjacent) = 0 THEN st
    ELSE RelaxAll(Relax(st, active_idx, adjacent[1] - 1, step, it),
                  active_idx, Tail(adjacent), step, it)

\* lines 514-526: for active_idx in active_idxs; elen is indexed with
\* active_idx itself
RECURSIVE Sweep(_, _, _, _, _, _)
Sweep(st, active_idxs, m, elen, dfdx, it) ==
    IF Len(active_idxs) = 0 THEN st
    ELSE Sweep(RelaxAll(st, active_idxs[1], AdjacentEdges(m, active_idxs[1]),
                        elen[active_idxs[1] + 1] * dfdx, it),
               Tail(active_idxs), m, elen, dfdx, it)

MaxVal == 5

MaxSlope == 1

MaxImax == 4

\* right triangles with sides 3, 4, 5 in two numberings, and the 3 x 4
\* rectangle cut along its diagonal
LimShapes ==
    {[pts |-> <<(<<0, 0>>), (<<3, 0>>), (<<0, 4>>)>>, tris |-> <<(<<0, 1, 2>>)>>],
     [pts |-> <<(<<0, 0>>), (<<0, 4>>), (<<3, 0>>)>>, tris |-> <<(<<0, 1, 2>>)>>],
     [pts |-> <<(<<0, 0>>), (<<3, 0>>), (<<3, 4>>), (<<0, 4>>)>>,
      tris |-> <<(<<0, 1, 2>>), (<<0, 2, 3>>)>>]}

LimMeshes ==
    UNION {{[MeshOf(sh.pts, sh.tris, FALSE) EXCEPT !.value = f] :
               f \in [1..Len(sh.pts) -> 0..MaxVal]} : sh \in LimShapes}

LimInit ==
    /\ mesh \in LimMeshes
    /\ lim \in {[pc |-> "call", dfdx |-> d, imax |-> n, elen |-> << >>,
                 ffun |-> << >>, aset |-> << >>, iter |-> 0, exit |-> "none"] :
                    d \in 0..MaxSlope, n \in 1..MaxImax}
    /\ fin = Idle /\ hist = Idle /\ rule = Idle /\ srt = Idle /\ rng = Idle

LimOthers == UNCHANGED <<mesh, fin, hist, rule, srt, rng>>

\* lines 494-502: the tables built before the loop; iter is the value the
\* loop variable takes next
LimBegin ==
    /\ lim.pc = "call"
    /\ lim' = [lim EXCEPT !.pc = "loop",
                          !.elen = EdgeLengths(mesh, TriEdges(EdgeSet(mesh_to_tri(mesh)))),
                          !.ffun = mesh.value,
                          !.aset = [i \in 1..Len(mesh.value) |-> 0],
                          !.iter = 1]
    /\ LimOthers

\* lines 509-526: one iteration of the smoothing loop with a non-empty active set
LimIterate ==
    /\ lim.pc = "loop"
    /\ lim.iter <= lim.imax
    /\ Len(ActiveSet(lim.aset, lim.iter)) # 0
    /\ \E active_idxs \in Argsorts(TakeAt(lim.ffun, ActiveSet(lim.aset, lim.iter))) :
           lim' = [lim EXCEPT
                      !.ffun = Sweep([ffun |-> lim.ffun, aset |-> lim.aset], active_idxs,
                                     mesh, lim.elen, lim.dfdx, lim.iter).ffun,
                      !.aset = Sweep([ffun |-> lim.ffun, aset |-> lim.aset], active_idxs,
                                     mesh, lim.elen, lim.dfdx, lim.iter).aset,
                      !.iter = lim.iter + 1]
    /\ LimOthers

\* lines 510-512: the active set is empty, break; _iter keeps its value
LimBreak ==
    /\ lim.pc = "loop"
    /\ lim.iter <= lim.imax
    /\ Len(ActiveSet(lim.aset, lim.iter)) = 0
    /\ lim' = [lim EXCEPT !.pc = "done", !.exit = "break"]
    /\ LimOthers

\* line 509: range(1, imax + 1) is used up; _iter is left at imax
LimExhaust ==
    /\ lim.pc = "loop"
    /\ lim.iter > lim.imax
    /\ lim' = [lim EXCEPT !.pc = "done", !.exit = "exhausted", !.iter = lim.imax]
    /\ LimOthers

\* lines 527-529
LimRaise ==
    /\ lim.pc = "done"
    /\ ~ (lim.iter < lim.imax)
    /\ lim' = [lim EXCEPT !.pc = "raised"]
    /\ LimOthers

\* line 530
LimReturn ==
    /\ lim.pc = "done"
    /\ lim.iter < lim.imax
    /\ lim' = [lim EXCEPT !.pc = "returned"]
    /\ LimOthers

LimNext == LimBegin \/ LimIterate \/ LimBreak \/ LimExhaust \/ LimRaise \/ LimReturn

SpecLim == LimInit /\ [][LimNext]_vars

\* the length of the mesh edge e, from the coordinates of its ends
LengthOf(m, e) == EdgeLength(Coord(m, e[1]), Coord(m, e[2]))

\* C7: whenever limgrad returns a field, every mesh edge (a, b) satisfies
\* |value[a] - value[b]| <= dfdx * length(a, b) + tolerance; on integer fields
\* the tolerance is below one unit and drops out.
C7_GradientBound ==
    lim.pc = "returned" =>
        \A e \in EdgeSet(mesh_to_tri(mesh)) :
            Abs(lim.ffun[e[1] + 1] - lim.ffun[e[2] + 1]) <= lim.dfdx * LengthOf(mesh, e)

\* C8: limgrad raises the non-convergence error if and only if all imax
\* iterations ran with a non-empty active set; once the active set is empty at
\* an iteration k <= imax it returns the field.
C8_RaisesIffExhausted ==
    lim.pc \in {"raised", "returned"} =>
        (lim.pc = "raised" <=> lim.exit = "exhausted")

====
